---- MODULE Spec2Model ----
(***************************************************************************)
(* Model of core/wasm/src/types.rs: the error taxonomy of the wasm         *)
(* smart-contract executor (PrepareError, RuntimeError, Error), the        *)
(* conversions from wasmi traps and errors into it, the Display text of    *)
(* RuntimeError, and the execution Config with its defaults.               *)
(*                                                                         *)
(* The conversions are pure functions.  Each is an operator, and the       *)
(* specification Spec calls them on arguments drawn from bounded sets: a   *)
(* state holds the last call made (fn, arg, ret).  SpecInvoke drives one   *)
(* contract invocation under a Config.                                     *)
(***************************************************************************)
EXTENDS Integers, Sequences, FiniteSets, TLC

VARIABLES
    fn,            \* the function of types.rs called last
    arg,           \* its argument
    ret,           \* its return value
    image,         \* every value RuntimeError::from(Trap) has returned so far
    config,        \* the Config of the current invocation
    gas_counter,   \* gas charged so far in the invocation
    memory_pages,  \* linear-memory pages granted so far
    stack_height,  \* stack height in use
    metered,       \* metered operations attempted in the invocation
    last,          \* the last operation of the invocation and whether it was admitted
    result         \* Idle, Running, Success or the Error returned

vars == <<fn, arg, ret, image,
          config, gas_counter, memory_pages, stack_height, metered, last, result>>

callVars == <<fn, arg, ret, image>>

invokeVars == <<config, gas_counter, memory_pages, stack_height, metered, last, result>>

(***************************************************************************)
(* Bounds of the model.                                                    *)
(***************************************************************************)
\* longest panic message built from Alphabet
MaxMsgLen == 1

\* largest gas_limit / page limit / stack limit of a non-default Config
MaxLimit == 2

\* largest per-operation cost of a non-default Config
MaxCost == 1

\* largest number of units (instructions, pages, frame slots) in one step
MaxUnits == 2

\* number of metered operations attempted in one invocation
MaxMetered == 2

(***************************************************************************)
(* Strings.                                                                *)
(***************************************************************************)
Alphabet == {"a", "\""}

RECURSIVE StringsUpTo(_)
StringsUpTo(n) ==
    IF n = 0 THEN {""}
    ELSE LET shorter == StringsUpTo(n - 1)
         IN  shorter \cup {s \o c : s \in shorter, c \in Alphabet}

StartsWith(s, prefix) ==
    /\ Len(s) >= Len(prefix)
    /\ SubSeq(s, 1, Len(prefix)) = prefix

(***************************************************************************)
(* pub enum PrepareError                                                   *)
(***************************************************************************)
PrepareErrorTags ==
    {"Serialization", "Deserialization", "InternalMemoryDeclared",
     "GasInstrumentation", "StackHeightInstrumentation", "Invoke",
     "Instantiate", "Memory"}

PrepareError == {[tag |-> t] : t \in PrepareErrorTags}

(***************************************************************************)
(* pub enum RuntimeError: eighteen unit variants and Panic(String).        *)
(***************************************************************************)
UnitRuntimeErrorTags ==
    {"StorageReadError", "StorageUpdateError", "MemoryAccessViolation",
     "InvalidReturn", "InvalidGasState", "BalanceQueryError",
     "AllocationFailed", "GasLimit", "Unknown", "BadUtf8", "Log", "Other",
     "InvalidSyscall", "Unreachable", "InvalidVirtualCall", "DivisionByZero",
     "InvalidConversionToInt", "StackOverflow"}

Unit(t) == [tag |-> t]

Panic(msg) == [tag |-> "Panic", msg |-> msg]

\* Mutant: the InvalidSyscall arm writes the text of InvalidVirtualCall.
UnitDisplay_Duplicate(t) ==
    CASE t = "StorageReadError"       -> "Storage read error"
      [] t = "StorageUpdateError"     -> "Storage update error"
      [] t = "MemoryAccessViolation"  -> "Memory access violation"
      [] t = "InvalidGasState"        -> "Invalid gas state"
      [] t = "BalanceQueryError"      -> "Balance query resulted in an error"
      [] t = "InvalidReturn"          -> "Invalid return value"
      [] t = "Unknown"                -> "Unknown runtime function invoked"
      [] t = "AllocationFailed"       -> "Memory allocation failed (OOM)"
      [] t = "BadUtf8"                -> "String encoding is bad utf-8 sequence"
      [] t = "GasLimit"               -> "Invocation resulted in gas limit violated"
      [] t = "Log"                    -> "Error occured while logging an event"
      [] t = "InvalidSyscall"         -> "Invalid virtual call"
      [] t = "Other"                  -> "Other unspecified error"
      [] t = "Unreachable"            -> "Unreachable instruction encountered"
      [] t = "InvalidVirtualCall"     -> "Invalid virtual call"
      [] t = "DivisionByZero"         -> "Division by zero"
      [] t = "StackOverflow"          -> "Stack overflow"
      [] t = "InvalidConversionToInt" -> "Invalid conversion to integer"

\* The text written by each unit arm of Display::fmt.
UnitDisplay(t) ==
    CASE t = "StorageReadError"       -> "Storage read error"
      [] t = "StorageUpdateError"     -> "Storage update error"
      [] t = "MemoryAccessViolation"  -> "Memory access violation"
      [] t = "InvalidGasState"        -> "Invalid gas state"
      [] t = "BalanceQueryError"      -> "Balance query resulted in an error"
      [] t = "InvalidReturn"          -> "Invalid return value"
      [] t = "Unknown"                -> "Unknown runtime function invoked"
      [] t = "AllocationFailed"       -> "Memory allocation failed (OOM)"
      [] t = "BadUtf8"                -> "String encoding is bad utf-8 sequence"
      [] t = "GasLimit"               -> "Invocation resulted in gas limit violated"
      [] t = "Log"                    -> "Error occured while logging an event"
      [] t = "InvalidSyscall"         -> "Invalid syscall signature encountered at runtime"
      [] t = "Other"                  -> "Other unspecified error"
      [] t = "Unreachable"            -> "Unreachable instruction encountered"
      [] t = "InvalidVirtualCall"     -> "Invalid virtual call"
      [] t = "DivisionByZero"         -> "Division by zero"
      [] t = "StackOverflow"          -> "Stack overflow"
      [] t = "InvalidConversionToInt" -> "Invalid conversion to integer"

\* Panic messages: every string over Alphabet up to MaxMsgLen, every text
\* that a unit variant displays, and texts that themselves look like a
\* displayed panic.
Messages ==
    StringsUpTo(MaxMsgLen)
      \cup {UnitDisplay(t) : t \in UnitRuntimeErrorTags}
      \cup {"Panic: ", "Panic: a"}

RuntimeError ==
    {Unit(t) : t \in UnitRuntimeErrorTags} \cup {Panic(m) : m \in Messages}

(***************************************************************************)
(* wasmi::Trap, wasmi::TrapKind and wasmi::Error as this file uses them.   *)
(* A host trap carries a boxed HostError; RuntimeError is the HostError of *)
(* this crate.                                                             *)
(***************************************************************************)
UnitTrapKinds ==
    {"Unreachable", "MemoryAccessOutOfBounds", "TableAccessOutOfBounds",
     "ElemUninitialized", "DivisionByZero", "InvalidConversionToInt",
     "UnexpectedSignature", "StackOverflow"}

HostError == RuntimeError

Trap ==
    {[kind |-> k] : k \in UnitTrapKinds}
      \cup {[kind |-> "Host", payload |-> e] : e \in HostError}

WasmiStringKinds ==
    {"Validation", "Instantiation", "Function", "Table", "Memory", "Global",
     "Value"}

WasmiError ==
    {[kind |-> k, msg |-> m] : k \in WasmiStringKinds, m \in StringsUpTo(MaxMsgLen)}
      \cup {[kind |-> "Trap", trap |-> t] : t \in Trap}
      \cup {[kind |-> "Host", payload |-> e] : e \in HostError}

(***************************************************************************)
(* impl From<Trap> for RuntimeError                                        *)
(***************************************************************************)
\* Mutant: an unexpected signature is reported as a syscall signature
\* mismatch.
FromTrapForRuntimeError_Signature(trap) ==
    CASE trap.kind = "Unreachable"             -> Unit("Unreachable")
      [] trap.kind = "MemoryAccessOutOfBounds" -> Unit("MemoryAccessViolation")
      [] trap.kind \in {"TableAccessOutOfBounds", "ElemUninitialized"}
                                               -> Unit("InvalidVirtualCall")
      [] trap.kind = "DivisionByZero"          -> Unit("DivisionByZero")
      [] trap.kind = "InvalidConversionToInt"  -> Unit("InvalidConversionToInt")
      [] trap.kind = "UnexpectedSignature"     -> Unit("InvalidSyscall")
      [] trap.kind = "StackOverflow"           -> Unit("StackOverflow")
      [] trap.kind = "Host"                    -> Unit("Other")

\* Mutant: a host trap hands back the RuntimeError it carries.
FromTrapForRuntimeError_Unwrap(trap) ==
    CASE trap.kind = "Unreachable"             -> Unit("Unreachable")
      [] trap.kind = "MemoryAccessOutOfBounds" -> Unit("MemoryAccessViolation")
      [] trap.kind \in {"TableAccessOutOfBounds", "ElemUninitialized"}
                                               -> Unit("InvalidVirtualCall")
      [] trap.kind = "DivisionByZero"          -> Unit("DivisionByZero")
      [] trap.kind = "InvalidConversionToInt"  -> Unit("InvalidConversionToInt")
      [] trap.kind = "UnexpectedSignature"     -> Unit("InvalidVirtualCall")
      [] trap.kind = "StackOverflow"           -> Unit("StackOverflow")
      [] trap.kind = "Host"                    -> trap.payload

FromTrapForRuntimeError(trap) ==
    CASE trap.kind = "Unreachable"             -> Unit("Unreachable")
      [] trap.kind = "MemoryAccessOutOfBounds" -> Unit("MemoryAccessViolation")
      [] trap.kind \in {"TableAccessOutOfBounds", "ElemUninitialized"}
                                               -> Unit("InvalidVirtualCall")
      [] trap.kind = "DivisionByZero"          -> Unit("DivisionByZero")
      [] trap.kind = "InvalidConversionToInt"  -> Unit("InvalidConversionToInt")
      [] trap.kind = "UnexpectedSignature"     -> Unit("InvalidVirtualCall")
      [] trap.kind = "StackOverflow"           -> Unit("StackOverflow")
      [] trap.kind = "Host"                    -> Unit("Other")

(***************************************************************************)
(* impl From<WasmiError> for RuntimeError                                  *)
(***************************************************************************)
\* Mutant: an interpreter error that wraps a trap is translated as the trap.
FromWasmiErrorForRuntimeError_Trap(err) ==
    CASE err.kind = "Value"  -> Unit("InvalidSyscall")
      [] err.kind = "Memory" -> Unit("MemoryAccessViolation")
      [] err.kind = "Trap"   -> FromTrapForRuntimeError(err.trap)
      [] OTHER               -> Unit("Other")

FromWasmiErrorForRuntimeError(err) ==
    CASE err.kind = "Value"  -> Unit("InvalidSyscall")
      [] err.kind = "Memory" -> Unit("MemoryAccessViolation")
      [] OTHER               -> Unit("Other")

(***************************************************************************)
(* impl Display for RuntimeError                                           *)
(***************************************************************************)
\* Mutant: "{:?}" in place of "{}" writes the string quoted.
FormatDisplayString_Debug(s) == "\"" \o s \o "\""

\* "{}" applied to a String writes the string itself.
FormatDisplayString(s) == s

Display(e) ==
    IF e.tag = "Panic"
    THEN "Panic: " \o FormatDisplayString(e.msg)
    ELSE UnitDisplay(e.tag)

(***************************************************************************)
(* pub enum Error and the conversions into it.                             *)
(***************************************************************************)
ErrorRuntime(e) == [tag |-> "Runtime", inner |-> e]

ErrorPrepare(p) == [tag |-> "Prepare", inner |-> p]

ErrorInterpreter(w) == [tag |-> "Interpreter", inner |-> w]

ErrorTrap(t) == [tag |-> "Trap", inner |-> t]

FromWasmiErrorForError(e) == ErrorInterpreter(e)

\* Mutant: the trap is translated to a RuntimeError before it is wrapped.
FromTrapForError_Translated(e) == ErrorRuntime(FromTrapForRuntimeError(e))

FromTrapForError(e) == ErrorTrap(e)

\* Mutant: the wrapper is rebuilt from the variant and drops the message.
FromRuntimeErrorForError_NoMessage(e) ==
    ErrorRuntime(IF e.tag = "Panic" THEN Panic("") ELSE e)

FromRuntimeErrorForError(e) == ErrorRuntime(e)

(***************************************************************************)
(* pub struct Config and impl Default for Config.                          *)
(***************************************************************************)
\* Mutant: the stack height is given in decimal thousands.
ConfigDefault_Decimal ==
    [grow_mem_cost             |-> 1,
     regular_op_cost           |-> 1,
     return_data_per_byte_cost |-> 1,
     max_stack_height          |-> 64 * 1000,
     max_memory_pages          |-> 16,
     gas_limit                 |-> 128 * 1024]

\* The literals of Config::default(); 64 * 1024 and 128 * 1024 are evaluated
\* in the field's type (u32 and u64).
ConfigDefault ==
    [grow_mem_cost             |-> 1,
     regular_op_cost           |-> 1,
     return_data_per_byte_cost |-> 1,
     max_stack_height          |-> 64 * 1024,
     max_memory_pages          |-> 16,
     gas_limit                 |-> 128 * 1024]

\* Range of the field types of Config (u32, u64), in 16-bit limbs.
Limb == 2 ^ 16

FitsU32(x) == x >= 0 /\ x \div Limb < Limb

FitsU64(x) == x >= 0 /\ ((x \div Limb) \div Limb) \div Limb < Limb

\* The state of an invocation that has not failed.
Idle == [tag |-> "Idle"]

Running == [tag |-> "Running"]

Success == [tag |-> "Success"]

(***************************************************************************)
(* Initial state: nothing called yet, no invocation started.               *)
(***************************************************************************)
Init ==
    /\ fn = "none"
    /\ arg = "none"
    /\ ret = "none"
    /\ image = {}
    /\ config = ConfigDefault
    /\ gas_counter = 0
    /\ memory_pages = 0
    /\ stack_height = 0
    /\ metered = 0
    /\ last = [op |-> "none", admitted |-> TRUE]
    /\ result = Idle

(***************************************************************************)
(* One action per function of the file.                                    *)
(***************************************************************************)
CallFromTrapForRuntimeError ==
    \E t \in Trap :
        /\ fn' = "RuntimeError::from(Trap)"
        /\ arg' = t
        /\ ret' = FromTrapForRuntimeError(t)
        /\ image' = image \cup {FromTrapForRuntimeError(t)}
        /\ UNCHANGED invokeVars

CallFromWasmiErrorForRuntimeError ==
    \E w \in WasmiError :
        /\ fn' = "RuntimeError::from(WasmiError)"
        /\ arg' = w
        /\ ret' = FromWasmiErrorForRuntimeError(w)
        /\ UNCHANGED <<image, invokeVars>>

CallDisplay ==
    \E e \in RuntimeError :
        /\ fn' = "RuntimeError::fmt"
        /\ arg' = e
        /\ ret' = Display(e)
        /\ UNCHANGED <<image, invokeVars>>

CallFromWasmiErrorForError ==
    \E w \in WasmiError :
        /\ fn' = "Error::from(WasmiError)"
        /\ arg' = w
        /\ ret' = FromWasmiErrorForError(w)
        /\ UNCHANGED <<image, invokeVars>>

CallFromTrapForError ==
    \E t \in Trap :
        /\ fn' = "Error::from(Trap)"
        /\ arg' = t
        /\ ret' = FromTrapForError(t)
        /\ UNCHANGED <<image, invokeVars>>

CallFromRuntimeErrorForError ==
    \E e \in RuntimeError :
        /\ fn' = "Error::from(RuntimeError)"
        /\ arg' = e
        /\ ret' = FromRuntimeErrorForError(e)
        /\ UNCHANGED <<image, invokeVars>>

CallErrorPrepare ==
    \E p \in PrepareError :
        /\ fn' = "Error::Prepare"
        /\ arg' = p
        /\ ret' = ErrorPrepare(p)
        /\ UNCHANGED <<image, invokeVars>>

CallConfigDefault ==
    /\ fn' = "Config::default"
    /\ arg' = "none"
    /\ ret' = ConfigDefault
    /\ UNCHANGED <<image, invokeVars>>

Next ==
    \/ CallFromTrapForRuntimeError
    \/ CallFromWasmiErrorForRuntimeError
    \/ CallDisplay
    \/ CallFromWasmiErrorForError
    \/ CallFromTrapForError
    \/ CallFromRuntimeErrorForError
    \/ CallErrorPrepare
    \/ CallConfigDefault

Spec == Init /\ [][Next]_vars

(***************************************************************************)
(* One contract invocation under a Config.  The executor that consumes the *)
(* Config is not part of types.rs; these steps follow the resource         *)
(* configuration contract: gas is checked at each metered operation and a  *)
(* violation ends the invocation with RuntimeError::GasLimit, memory       *)
(* growth is bounded by max_memory_pages and the stack by                  *)
(* max_stack_height.                                                       *)
(***************************************************************************)
Config ==
    {ConfigDefault} \cup
    [grow_mem_cost             : 0..MaxCost,
     regular_op_cost           : 0..MaxCost,
     return_data_per_byte_cost : {1},
     max_stack_height          : 0..MaxLimit,
     max_memory_pages          : 0..MaxLimit,
     gas_limit                 : 0..MaxLimit]

\* Mutant: only a charge that passes the limit is a violation.
GasLimitReached_PastOnly(limit, counter, amount) == counter + amount > limit

\* A charge of `amount` is a violation when no gas remains or when it
\* would take the counter past the limit.
GasLimitReached(limit, counter, amount) ==
    \/ counter >= limit
    \/ counter + amount > limit

PagesExceeded(limit, pages, grow) == pages + grow > limit

StackExceeded(limit, height, frame) == height + frame > limit

StartInvocation ==
    \E cfg \in Config :
        /\ result # Running
        /\ config' = cfg
        /\ gas_counter' = 0
        /\ memory_pages' = 0
        /\ stack_height' = 0
        /\ metered' = 0
        /\ last' = [op |-> "none", admitted |-> TRUE]
        /\ result' = Running
        /\ UNCHANGED callVars

MeteredOp ==
    \E n \in 1..MaxUnits :
        LET amount == config.regular_op_cost * n IN
        /\ result = Running
        /\ metered < MaxMetered
        /\ metered' = metered + 1
        /\ IF GasLimitReached(config.gas_limit, gas_counter, amount)
           THEN /\ result' = FromRuntimeErrorForError(Unit("GasLimit"))
                /\ last' = [op |-> "metered", admitted |-> FALSE]
                /\ UNCHANGED gas_counter
           ELSE /\ gas_counter' = gas_counter + amount
                /\ last' = [op |-> "metered", admitted |-> TRUE]
                /\ UNCHANGED result
        /\ UNCHANGED <<config, memory_pages, stack_height, callVars>>

GrowMemory ==
    \E n \in 1..MaxUnits :
        LET amount == config.grow_mem_cost * n IN
        /\ result = Running
        /\ metered < MaxMetered
        /\ metered' = metered + 1
        /\ IF GasLimitReached(config.gas_limit, gas_counter, amount)
           THEN /\ result' = FromRuntimeErrorForError(Unit("GasLimit"))
                /\ last' = [op |-> "grow", admitted |-> FALSE]
                /\ UNCHANGED <<gas_counter, memory_pages>>
           ELSE /\ gas_counter' = gas_counter + amount
                /\ IF PagesExceeded(config.max_memory_pages, memory_pages, n)
                   THEN /\ last' = [op |-> "grow", admitted |-> FALSE]
                        /\ UNCHANGED memory_pages
                   ELSE /\ last' = [op |-> "grow", admitted |-> TRUE]
                        /\ memory_pages' = memory_pages + n
                /\ UNCHANGED result
        /\ UNCHANGED <<config, stack_height, callVars>>

PushFrame ==
    \E n \in 1..MaxUnits :
        /\ result = Running
        /\ stack_height <= MaxLimit
        /\ IF StackExceeded(config.max_stack_height, stack_height, n)
           THEN /\ last' = [op |-> "frame", admitted |-> FALSE]
                /\ UNCHANGED stack_height
           ELSE /\ last' = [op |-> "frame", admitted |-> TRUE]
                /\ stack_height' = stack_height + n
        /\ UNCHANGED <<config, gas_counter, memory_pages, metered, result, callVars>>

Finish ==
    /\ result = Running
    /\ result' = Success
    /\ UNCHANGED <<config, gas_counter, memory_pages, stack_height, metered,
                   last, callVars>>

NextInvoke ==
    \/ StartInvocation
    \/ MeteredOp
    \/ GrowMemory
    \/ PushFrame
    \/ Finish

SpecInvoke == Init /\ [][NextInvoke]_vars

(***************************************************************************)
(* Properties.                                                             *)
(***************************************************************************)

\* C1: From<Trap> for RuntimeError is total and follows the translation
\* table: every trap kind yields exactly one RuntimeError variant, the one
\* the table names, and TableAccessOutOfBounds, ElemUninitialized and
\* UnexpectedSignature all yield InvalidVirtualCall.
C1_TrapTranslationTable ==
    fn = "RuntimeError::from(Trap)" =>
        LET table ==
                [k \in UnitTrapKinds \cup {"Host"} |->
                    CASE k = "Unreachable"             -> "Unreachable"
                      [] k = "MemoryAccessOutOfBounds" -> "MemoryAccessViolation"
                      [] k = "TableAccessOutOfBounds"  -> "InvalidVirtualCall"
                      [] k = "ElemUninitialized"       -> "InvalidVirtualCall"
                      [] k = "DivisionByZero"          -> "DivisionByZero"
                      [] k = "InvalidConversionToInt"  -> "InvalidConversionToInt"
                      [] k = "UnexpectedSignature"     -> "InvalidVirtualCall"
                      [] k = "StackOverflow"           -> "StackOverflow"
                      [] k = "Host"                    -> "Other"]
        IN  /\ ret \in RuntimeError
            /\ ret = [tag |-> table[arg.kind]]

C1_Witness ==
    /\ fn = "RuntimeError::from(Trap)"
    /\ arg.kind = "UnexpectedSignature"
    /\ ret = [tag |-> "InvalidVirtualCall"]

\* C2: From<WasmiError> for RuntimeError is total: Value maps to
\* InvalidSyscall, Memory maps to MemoryAccessViolation, every other kind
\* (a wrapped trap and a host error included) maps to Other.
C2_WasmiErrorTranslation ==
    fn = "RuntimeError::from(WasmiError)" =>
        /\ ret \in RuntimeError
        /\ arg.kind = "Value" => ret = [tag |-> "InvalidSyscall"]
        /\ arg.kind = "Memory" => ret = [tag |-> "MemoryAccessViolation"]
        /\ arg.kind \notin {"Value", "Memory"} => ret = [tag |-> "Other"]

C2_Witness ==
    /\ fn = "RuntimeError::from(WasmiError)"
    /\ arg.kind = "Trap"
    /\ arg.trap.kind = "DivisionByZero"
    /\ ret = [tag |-> "Other"]

\* C3: Config::default() yields grow_mem_cost 1, regular_op_cost 1,
\* return_data_per_byte_cost 1, max_stack_height 65536, max_memory_pages 16
\* and gas_limit 131072, each within the range of its field type.
C3_DefaultConfig ==
    fn = "Config::default" =>
        /\ ret = [grow_mem_cost             |-> 1,
                  regular_op_cost           |-> 1,
                  return_data_per_byte_cost |-> 1,
                  max_stack_height          |-> 65536,
                  max_memory_pages          |-> 16,
                  gas_limit                 |-> 131072]
        /\ FitsU32(ret.grow_mem_cost)
        /\ FitsU32(ret.regular_op_cost)
        /\ FitsU32(ret.return_data_per_byte_cost)
        /\ FitsU32(ret.max_stack_height)
        /\ FitsU32(ret.max_memory_pages)
        /\ FitsU64(ret.gas_limit)

C3_Witness ==
    /\ fn = "Config::default"
    /\ ret.max_stack_height = 65536

\* C4: wrapping a RuntimeError (a Panic with any message included) gives
\* Error::Runtime holding an equal value, and wrapping a PrepareError gives
\* Error::Prepare holding an equal value; no other variant is produced.
C4_WrappingRoundTrip ==
    /\ fn = "Error::from(RuntimeError)" =>
           /\ ret.tag = "Runtime"
           /\ ret.inner = arg
    /\ fn = "Error::Prepare" =>
           /\ ret.tag = "Prepare"
           /\ ret.inner = arg

C4_Witness ==
    /\ fn = "Error::from(RuntimeError)"
    /\ arg.tag = "Panic"
    /\ arg.msg = "Stack overflow"
    /\ ret.inner.msg = "Stack overflow"

\* C5: a trap converts to Error::Trap holding the same trap, whatever its
\* kind, and never to Error::Runtime; an interpreter error converts to
\* Error::Interpreter holding the same error; the result is never a success.
C5_ErrorWrapsOriginal ==
    /\ fn = "Error::from(Trap)" =>
           /\ ret.tag = "Trap"
           /\ ret.inner = arg
           /\ ret # Success
    /\ fn = "Error::from(WasmiError)" =>
           /\ ret.tag = "Interpreter"
           /\ ret.inner = arg
           /\ ret # Success

C5_Witness ==
    /\ fn = "Error::from(Trap)"
    /\ arg.kind = "DivisionByZero"
    /\ ret.tag = "Trap"

\* C6: every variant but Panic displays as the fixed text of its arm, and
\* Panic(msg) displays as "Panic: " followed by msg, character for character.
C6_DisplayText ==
    fn = "RuntimeError::fmt" =>
        IF arg.tag = "Panic"
        THEN /\ Len(ret) = Len("Panic: ") + Len(arg.msg)
             /\ SubSeq(ret, 1, Len("Panic: ")) = "Panic: "
             /\ SubSeq(ret, Len("Panic: ") + 1, Len(ret)) = arg.msg
        ELSE /\ ret = UnitDisplay(arg.tag)
             /\ \A e \in RuntimeError : e.tag = arg.tag => e = arg

C6_Witness ==
    /\ fn = "RuntimeError::fmt"
    /\ arg.tag = "Panic"
    /\ arg.msg = "\""
    /\ ret = "Panic: \""

\* C9: From<Trap> for RuntimeError depends on the trap kind alone: a host
\* trap maps to Other whatever it carries, and the values returned are
\* exactly Unreachable, MemoryAccessViolation, InvalidVirtualCall,
\* DivisionByZero, InvalidConversionToInt, StackOverflow and Other.
C9_TrapImage ==
    LET TrapImage ==
            {[tag |-> t] : t \in
                {"Unreachable", "MemoryAccessViolation", "InvalidVirtualCall",
                 "DivisionByZero", "InvalidConversionToInt", "StackOverflow",
                 "Other"}}
    IN  /\ image \subseteq TrapImage
        /\ fn = "RuntimeError::from(Trap)" =>
               /\ arg.kind = "Host" => ret = [tag |-> "Other"]
               /\ \A t \in Trap :
                      t.kind = arg.kind => FromTrapForRuntimeError(t) = ret

C9_Witness ==
    /\ fn = "RuntimeError::from(Trap)"
    /\ arg.kind = "Host"
    /\ arg.payload = [tag |-> "GasLimit"]
    /\ ret = [tag |-> "Other"]
    /\ Cardinality(image) = 7

\* C10: the displayed text identifies the value: the eighteen fixed texts
\* are pairwise distinct, none begins with "Panic: ", and no other
\* RuntimeError has the text just displayed.
C10_DisplayInjective ==
    /\ \A t, u \in UnitRuntimeErrorTags :
           UnitDisplay(t) = UnitDisplay(u) => t = u
    /\ \A t \in UnitRuntimeErrorTags : ~StartsWith(UnitDisplay(t), "Panic: ")
    /\ Cardinality(UnitRuntimeErrorTags) = 18
    /\ fn = "RuntimeError::fmt" =>
           /\ arg.tag = "Panic" => ret = "Panic: " \o arg.msg
           /\ \A e \in RuntimeError : Display(e) = ret => e = arg

C10_Witness ==
    /\ fn = "RuntimeError::fmt"
    /\ arg = [tag |-> "Panic", msg |-> "Stack overflow"]
    /\ ret = "Panic: Stack overflow"

====
